---------------------------- MODULE Spec2Model ----------------------------
(***************************************************************************)
(* A model of tool/tsh/config.go: the tsh config command (onConfig,        *)
(* writeSSHConfig and sshConfigTemplate) and the tsh config-proxy          *)
(* command (onConfigProxy).                                                *)
(*                                                                         *)
(* Go strings are TLA+ strings; TLC evaluates Len, \o and SubSeq on them.  *)
(* Go's 0-based indices are kept: Slice(s, lo, hi) is s[lo:hi].            *)
(***************************************************************************)
EXTENDS Integers, Sequences, FiniteSets, TLC

VARIABLES
    cmd,        \* the entry point under execution
    pc,         \* the position inside that entry point
    cf,         \* *CLIConf: the command's inputs
    tc,         \* what the external collaborators hand to onConfig
    locals,     \* the local variables of the running function
    sb,         \* strings.Builder of onConfig / writeSSHConfig
    rendered,   \* the hostConfigParameters passed to writeSSHConfig, in order
    stdout,     \* the text written to standard output, one element per write
    children,   \* the child processes spawned, in order
    ret         \* the returned error: NotReturned, Nil, or an error record

vars == <<cmd, pc, cf, tc, locals, sb, rendered, stdout, children, ret>>

-----------------------------------------------------------------------------
(* Bounds of the model. *)

\* Longest address string enumerated for net.SplitHostPort.
MaxAddrLen == 4

\* Most labels of a dotted proxy host or site name (targets get two more).
MaxLabels == 2

\* Most leaf clusters returned by cluster discovery.
MaxLeaves == 2

-----------------------------------------------------------------------------
(* Go string primitives. *)

\* s[lo:hi]
Slice(s, lo, hi) == SubSeq(s, lo + 1, hi)

\* s[i], as a one-character string
At(s, i) == SubSeq(s, i + 1, i + 1)

\* bytealg.IndexByteString: the first index of c in s, or -1
IndexByteString(s, c) ==
    LET hits == {i \in 0..(Len(s) - 1) : At(s, i) = c}
    IN  IF hits = {} THEN -1 ELSE CHOOSE i \in hits : \A j \in hits : i <= j

\* bytealg.LastIndexByteString: the last index of c in s, or -1
LastIndexByteString(s, c) ==
    LET hits == {i \in 0..(Len(s) - 1) : At(s, i) = c}
    IN  IF hits = {} THEN -1 ELSE CHOOSE i \in hits : \A j \in hits : i >= j

\* strings.HasPrefix
HasPrefix(s, prefix) ==
    Len(s) >= Len(prefix) /\ Slice(s, 0, Len(prefix)) = prefix

\* strings.HasSuffix
HasSuffix(s, suffix) ==
    Len(s) >= Len(suffix) /\ Slice(s, Len(s) - Len(suffix), Len(s)) = suffix

\* strings.TrimSuffix: s without the suffix, once, or s unchanged
TrimSuffix(s, suffix) ==
    IF HasSuffix(s, suffix) THEN Slice(s, 0, Len(s) - Len(suffix)) ELSE s

-----------------------------------------------------------------------------
(* Return values. *)

NotReturned == [kind |-> "NotReturned"]
Nil == [kind |-> "Nil"]

\* *net.AddrError{Err: why, Addr: addr}
AddrError(addr, why) == [kind |-> "AddrError", addr |-> addr, why |-> why]

-----------------------------------------------------------------------------
(* net.SplitHostPort, as called at config.go:91, :158 and :163. *)

\* A faulty variant: the port keeps the colon in front of it (hostport[i:]).
SplitHostPortPortFromColon(hostport) ==
    LET i == LastIndexByteString(hostport, ":")
    IN  IF i < 0
        THEN [host |-> "", port |-> "", err |-> AddrError(hostport, "missing port in address")]
        ELSE [host |-> Slice(hostport, 0, i),
              port |-> Slice(hostport, i, Len(hostport)),
              err  |-> Nil]

SplitHostPort(hostport) ==
    LET fail(why) == [host |-> "", port |-> "", err |-> AddrError(hostport, why)]
        \* The port starts after the last colon.
        i == LastIndexByteString(hostport, ":")
    IN  IF i < 0 THEN fail("missing port in address")
        ELSE
        LET bracketed == At(hostport, 0) = "["
            \* Expect the first ']' just before the last ':'.
            end == IndexByteString(hostport, "]")
            host == IF bracketed THEN Slice(hostport, 1, end) ELSE Slice(hostport, 0, i)
            j == IF bracketed THEN 1 ELSE 0
            k == IF bracketed THEN end + 1 ELSE 0
        IN  IF bracketed /\ end < 0 THEN fail("missing ']' in address")
            ELSE IF bracketed /\ end + 1 = Len(hostport) THEN fail("missing port in address")
            ELSE IF bracketed /\ end + 1 # i /\ At(hostport, end + 1) = ":"
                THEN fail("too many colons in address")
            ELSE IF bracketed /\ end + 1 # i THEN fail("missing port in address")
            ELSE IF ~bracketed /\ IndexByteString(host, ":") >= 0
                THEN fail("too many colons in address")
            ELSE IF IndexByteString(Slice(hostport, j, Len(hostport)), "[") >= 0
                THEN fail("unexpected '[' in address")
            ELSE IF IndexByteString(Slice(hostport, k, Len(hostport)), "]") >= 0
                THEN fail("unexpected ']' in address")
            ELSE [host |-> host, port |-> Slice(hostport, i + 1, Len(hostport)), err |-> Nil]

-----------------------------------------------------------------------------
(* The address strings net.SplitHostPort is exercised on. *)

AddrAlphabet == {"a", ".", ":", "[", "]"}

RECURSIVE StringsOfLen(_, _)
StringsOfLen(alphabet, n) ==
    IF n = 0 THEN {""}
    ELSE {s \o c : s \in StringsOfLen(alphabet, n - 1), c \in alphabet}

StringsUpTo(alphabet, n) == UNION {StringsOfLen(alphabet, m) : m \in 0..n}

SplitInputs == StringsUpTo(AddrAlphabet, MaxAddrLen) \cup {"no-port-here", "proxy.example.com:443"}

InitSplit ==
    /\ cmd = "split"
    /\ pc = "split"
    /\ cf \in {[Proxy |-> a] : a \in SplitInputs}
    /\ tc = <<>>
    /\ locals = <<>>
    /\ sb = ""
    /\ rendered = <<>>
    /\ stdout = <<>>
    /\ children = <<>>
    /\ ret = NotReturned

\* proxyHost, proxyPort, err := net.SplitHostPort(cf.Proxy)
SplitCall ==
    /\ cmd = "split"
    /\ pc = "split"
    /\ locals' = SplitHostPort(cf.Proxy)
    /\ pc' = "done"
    /\ UNCHANGED <<cmd, cf, tc, sb, rendered, stdout, children, ret>>

NextSplit == SplitCall

SpecSplit == InitSplit /\ [][NextSplit]_vars


-----------------------------------------------------------------------------
(* onConfigProxy: the tsh config-proxy command. *)

\* getDefaultSSHPath
getDefaultSSHPath(goos) ==
    IF goos = "windows" THEN "C:\\Windows\\System32\\OpenSSH\\ssh.exe" ELSE "/usr/bin/ssh"

\* A faulty variant: the site-name suffix is trimmed before the proxy-host suffix.
StripTargetHostSiteFirst(targetHost, proxyHost, siteName) ==
    TrimSuffix(TrimSuffix(targetHost, "." \o siteName), "." \o proxyHost)

\* targetHost = strings.TrimSuffix(targetHost, "."+proxyHost)
\* targetHost = strings.TrimSuffix(targetHost, "."+cf.SiteName)
StripTargetHost(targetHost, proxyHost, siteName) ==
    TrimSuffix(TrimSuffix(targetHost, "." \o proxyHost), "." \o siteName)

\* A faulty variant: the proxy host and port change places.
BuildArgsHostBeforePort(proxyHost, proxyPort, targetHost, targetPort, siteName) ==
    <<"-p", proxyHost, proxyPort, "-s",
      "proxy:" \o targetHost \o ":" \o targetPort \o "@" \o siteName>>

\* args := []string{"-p", proxyPort, proxyHost, "-s"}
\* args = append(args, fmt.Sprintf("proxy:%s:%s@%s", targetHost, targetPort, cf.SiteName))
BuildArgs(proxyHost, proxyPort, targetHost, targetPort, siteName) ==
    <<"-p", proxyPort, proxyHost, "-s",
      "proxy:" \o targetHost \o ":" \o targetPort \o "@" \o siteName>>

\* What (*exec.Cmd).Run can end with: the child's exit status, or no child
\* because the binary could not be started.
ChildOutcomes == {"exit0", "exit1", "exit255", "start_failed"}

\* The error (*exec.Cmd).Run returns for an outcome.
RunError(outcome) ==
    CASE outcome = "exit0" -> Nil
      [] outcome = "exit1" -> [kind |-> "ExitError", code |-> 1]
      [] outcome = "exit255" -> [kind |-> "ExitError", code |-> 255]
      [] OTHER -> [kind |-> "StartError"]

\* The invocation an SSH client makes of the rendered ProxyCommand line
\*   <TSHPath> config-proxy --proxy=<ProxyHost>:<ProxyPort> %h:%p "<ClusterName>"
\* for host h and port p.
ProxyCommandInvocation(ClusterName, ProxyHost, ProxyPort, h, p) ==
    [Proxy |-> ProxyHost \o ":" \o ProxyPort,
     ConfigProxyTarget |-> h \o ":" \o p,
     SiteName |-> ClusterName]

\* The dotted names the addresses are built from.
Labels == {"n", "p"}

RECURSIVE DotNamesOfLen(_)
DotNamesOfLen(k) ==
    IF k = 1 THEN Labels
    ELSE {d \o "." \o l : d \in DotNamesOfLen(k - 1), l \in Labels}

DotNames(k) == UNION {DotNamesOfLen(m) : m \in 1..k}

ProxyHosts == DotNames(MaxLabels) \cup {"proxy.example.com"}
SiteNames == DotNames(MaxLabels) \cup {"main", ""}
TargetHosts ==
    DotNames(MaxLabels + 2) \cup {"node1.proxy.example.com", "node1.main", "node1"}

ProxyAddrs ==
    {h \o ":443" : h \in ProxyHosts} \cup {"no-port-here", "[::1]:443", "n:p:443"}
TargetAddrs ==
    {h \o ":3022" : h \in TargetHosts} \cup {"no-port-here", "[n.p]:3022", "n.p"}

InitProxy ==
    /\ cmd = "config-proxy"
    /\ pc = "split_proxy"
    /\ cf \in [Proxy : ProxyAddrs, ConfigProxyTarget : TargetAddrs, SiteName : SiteNames]
    /\ tc \in [GOOS : {"linux", "windows"}]
    /\ locals = <<>>
    /\ sb = ""
    /\ rendered = <<>>
    /\ stdout = <<>>
    /\ children = <<>>
    /\ ret = NotReturned

\* proxyHost, proxyPort, err := net.SplitHostPort(cf.Proxy)
\* if err != nil { return trace.Wrap(err) }
OnConfigProxy_SplitProxy ==
    /\ cmd = "config-proxy"
    /\ pc = "split_proxy"
    /\ LET r == SplitHostPort(cf.Proxy)
       IN  IF r.err # Nil
           THEN /\ ret' = r.err
                /\ pc' = "done"
                /\ UNCHANGED locals
           ELSE /\ locals' = [proxyHost |-> r.host, proxyPort |-> r.port]
                /\ pc' = "split_target"
                /\ UNCHANGED ret
    /\ UNCHANGED <<cmd, cf, tc, sb, rendered, stdout, children>>

\* A faulty variant: the target's parse error is dropped and execution goes on.
OnConfigProxy_SplitTargetErrIgnored ==
    /\ cmd = "config-proxy"
    /\ pc = "split_target"
    /\ LET r == SplitHostPort(cf.ConfigProxyTarget)
       IN  locals' = [proxyHost |-> locals.proxyHost, proxyPort |-> locals.proxyPort,
                      targetHost |-> r.host, targetPort |-> r.port]
    /\ pc' = "build_args"
    /\ UNCHANGED <<cmd, cf, tc, sb, rendered, stdout, children, ret>>

\* targetHost, targetPort, err := net.SplitHostPort(cf.ConfigProxyTarget)
\* if err != nil { return trace.Wrap(err) }
OnConfigProxy_SplitTarget ==
    /\ cmd = "config-proxy"
    /\ pc = "split_target"
    /\ LET r == SplitHostPort(cf.ConfigProxyTarget)
       IN  IF r.err # Nil
           THEN /\ ret' = r.err
                /\ pc' = "done"
                /\ UNCHANGED locals
           ELSE /\ locals' = [proxyHost |-> locals.proxyHost, proxyPort |-> locals.proxyPort,
                              targetHost |-> r.host, targetPort |-> r.port]
                /\ pc' = "build_args"
                /\ UNCHANGED ret
    /\ UNCHANGED <<cmd, cf, tc, sb, rendered, stdout, children>>

\* The suffix trimming and the argument vector, config.go:168-179.
OnConfigProxy_BuildArgs ==
    /\ cmd = "config-proxy"
    /\ pc = "build_args"
    /\ LET stripped == StripTargetHost(locals.targetHost, locals.proxyHost, cf.SiteName)
       IN  locals' = [proxyHost |-> locals.proxyHost, proxyPort |-> locals.proxyPort,
                      targetHost |-> stripped, targetPort |-> locals.targetPort,
                      args |-> BuildArgs(locals.proxyHost, locals.proxyPort, stripped,
                                         locals.targetPort, cf.SiteName)]
    /\ pc' = "run"
    /\ UNCHANGED <<cmd, cf, tc, sb, rendered, stdout, children, ret>>

\* exec.Command(getDefaultSSHPath(), args...) with the three standard streams.
Child(path, args, outcome) ==
    [path |-> path, args |-> args, outcome |-> outcome,
     stdin |-> "os.Stdin", stdout |-> "os.Stdout", stderr |-> "os.Stderr"]

\* A faulty variant: a child that fails is run a second time.
OnConfigProxy_RunWithRetry ==
    /\ cmd = "config-proxy"
    /\ pc = "run"
    /\ \E first \in ChildOutcomes, second \in ChildOutcomes :
          LET path == getDefaultSSHPath(tc.GOOS)
          IN  IF first = "exit0"
              THEN /\ children' = Append(children, Child(path, locals.args, first))
                   /\ ret' = RunError(first)
              ELSE /\ children' = children \o <<Child(path, locals.args, first),
                                                Child(path, locals.args, second)>>
                   /\ ret' = RunError(second)
    /\ pc' = "done"
    /\ UNCHANGED <<cmd, cf, tc, locals, sb, rendered, stdout>>

\* child := exec.Command(...); return child.Run()
OnConfigProxy_Run ==
    /\ cmd = "config-proxy"
    /\ pc = "run"
    /\ \E outcome \in ChildOutcomes :
          /\ children' = Append(children,
                                Child(getDefaultSSHPath(tc.GOOS), locals.args, outcome))
          /\ ret' = RunError(outcome)
    /\ pc' = "done"
    /\ UNCHANGED <<cmd, cf, tc, locals, sb, rendered, stdout>>

NextProxy ==
    \/ OnConfigProxy_SplitProxy
    \/ OnConfigProxy_SplitTarget
    \/ OnConfigProxy_BuildArgs
    \/ OnConfigProxy_Run

SpecProxy == InitProxy /\ [][NextProxy]_vars

-----------------------------------------------------------------------------
(* sshConfigTemplate and writeSSHConfig. *)

\* A parsed template is its sequence of nodes: literal text and {{ .Field }}.
Text(s) == [text |-> s]
Field(f) == [field |-> f]

\* A faulty variant: the second Host pattern loses the "!" in front of the proxy host.
sshConfigTemplateNoNegation ==
    <<Text("\n# Common flags for all "), Field("ClusterName"), Text(" hosts\nHost *."),
      Field("ClusterName"), Text(" "), Field("ProxyHost"),
      Text("\n    UserKnownHostsFile \""), Field("KnownHostsPath"),
      Text("\"\n    IdentityFile \""), Field("IdentityFilePath"),
      Text("\"\n    CertificateFile \""), Field("CertificateFilePath"),
      Text("\"\n\n# Flags for all "), Field("ClusterName"),
      Text(" hosts except the proxy\nHost *."), Field("ClusterName"),
      Text(" "), Field("ProxyHost"),
      Text("\n    Port 3022\n    ProxyCommand "), Field("TSHPath"),
      Text(" config-proxy --proxy="), Field("ProxyHost"), Text(":"), Field("ProxyPort"),
      Text(" %h:%p \""), Field("ClusterName"), Text("\"\n")>>

\* const sshConfigTemplate, after template.New("ssh-config").Parse
sshConfigTemplate ==
    <<Text("\n# Common flags for all "), Field("ClusterName"), Text(" hosts\nHost *."),
      Field("ClusterName"), Text(" "), Field("ProxyHost"),
      Text("\n    UserKnownHostsFile \""), Field("KnownHostsPath"),
      Text("\"\n    IdentityFile \""), Field("IdentityFilePath"),
      Text("\"\n    CertificateFile \""), Field("CertificateFilePath"),
      Text("\"\n\n# Flags for all "), Field("ClusterName"),
      Text(" hosts except the proxy\nHost *."), Field("ClusterName"),
      Text(" !"), Field("ProxyHost"),
      Text("\n    Port 3022\n    ProxyCommand "), Field("TSHPath"),
      Text(" config-proxy --proxy="), Field("ProxyHost"), Text(":"), Field("ProxyPort"),
      Text(" %h:%p \""), Field("ClusterName"), Text("\"\n")>>

\* What one node writes: its text, or the field's value as it is (text/template
\* does no escaping).
NodeOutput(node, params) ==
    IF "text" \in DOMAIN node THEN node.text ELSE params[node.field]

\* t.Execute(sb, params) up to and including node n: what reaches the writer.
RECURSIVE TemplateExecute(_, _, _)
TemplateExecute(t, params, n) ==
    IF n = 0 THEN ""
    ELSE TemplateExecute(t, params, n - 1) \o NodeOutput(t[n], params)

\* The block writeSSHConfig appends for params when Execute succeeds.
RenderedBlock(params) == TemplateExecute(sshConfigTemplate, params, Len(sshConfigTemplate))

\* trace.WrapWithMessage(err, "error generating SSH configuration from template")
TemplateError == [kind |-> "TemplateError"]

\* writeSSHConfig: what it can leave in the builder and return.  When Execute
\* succeeds the whole block is appended and nil returned; when it fails at
\* some node, what was written before that node stays and the wrapped error
\* is returned.
WriteSSHConfig(builder, params, fails) ==
    IF fails
    THEN {[sb |-> builder \o TemplateExecute(sshConfigTemplate, params, n),
           err |-> TemplateError] : n \in 0..(Len(sshConfigTemplate) - 1)}
    ELSE {[sb |-> builder \o RenderedBlock(params), err |-> Nil]}

\* The values writeSSHConfig is exercised on.  A path may hold spaces and
\* double quotes; a cluster name may hold a line break.
PathAlphabet == {"k", "/", " ", "\""}

\* Longest KnownHostsPath enumerated over PathAlphabet.
MaxPathLen == 2

RenderInputs ==
    [ClusterName : {"main", "leaf.example.com", "a\nHost b"},
     KnownHostsPath : StringsUpTo(PathAlphabet, MaxPathLen)
                      \cup {"/home/u/.tsh/known_hosts", "\"/home/u/.tsh/known_hosts\""},
     IdentityFilePath : {"/home/u/.tsh/keys/p/alice", "\"/my keys/alice\""},
     CertificateFilePath : {"/home/u/.tsh/keys/p/alice-ssh/main-cert.pub", "\"/c\""},
     ProxyHost : {"proxy.example.com", "p"},
     ProxyPort : {"443"},
     TSHPath : {"/usr/bin/tsh", "C:\\tsh.exe"}]

InitRender ==
    /\ cmd = "render"
    /\ pc = "execute"
    /\ cf \in RenderInputs
    /\ tc \in [execFails : BOOLEAN]
    /\ locals = <<>>
    /\ sb = ""
    /\ rendered = <<>>
    /\ stdout = <<>>
    /\ children = <<>>
    /\ ret = NotReturned

\* writeSSHConfig(sb, params)
WriteSSHConfig_Call ==
    /\ cmd = "render"
    /\ pc = "execute"
    /\ \E r \in WriteSSHConfig(sb, cf, tc.execFails) :
          /\ sb' = r.sb
          /\ ret' = r.err
    /\ rendered' = Append(rendered, cf)
    /\ pc' = "done"
    /\ UNCHANGED <<cmd, cf, tc, locals, stdout, children>>

NextRender == WriteSSHConfig_Call

SpecRender == InitRender /\ [][NextRender]_vars

-----------------------------------------------------------------------------
(* onConfig: the tsh config command. *)

\* profile.FullProfilePath: the directory given, or the default one.
FullProfilePath(dir) == IF dir = "" THEN "/home/u/.tsh" ELSE dir

\* keypaths.KnownHostsPath
KnownHostsPath(baseDir) == baseDir \o "/known_hosts"

\* keypaths.UserKeyPath
UserKeyPath(baseDir, proxy, username) == baseDir \o "/keys/" \o proxy \o "/" \o username

\* keypaths.SSHCertPath
SSHCertPath(baseDir, proxy, username, cluster) ==
    baseDir \o "/keys/" \o proxy \o "/" \o username \o "-ssh/" \o cluster \o "-cert.pub"

\* A faulty variant: a leaf block takes the certificate path of its own cluster.
LeafCertificateFilePathOfLeaf(keysDir, proxyHost, username, rootClusterName, leafName) ==
    SSHCertPath(keysDir, proxyHost, username, leafName)

\* CertificateFilePath of a leaf block, config.go:142
LeafCertificateFilePath(keysDir, proxyHost, username, rootClusterName, leafName) ==
    SSHCertPath(keysDir, proxyHost, username, rootClusterName)

\* CertificateFilePath of the root block, config.go:128
RootCertificateFilePath(keysDir, proxyHost, username, rootClusterName) ==
    SSHCertPath(keysDir, proxyHost, username, rootClusterName)

\* hostConfigParameters{...}
HostConfigParameters(clusterName, knownHostsPath, identityFilePath, certificateFilePath, proxyHost, proxyPort, tshPath) ==
    [ClusterName |-> clusterName,
     KnownHostsPath |-> knownHostsPath,
     IdentityFilePath |-> identityFilePath,
     CertificateFilePath |-> certificateFilePath,
     ProxyHost |-> proxyHost,
     ProxyPort |-> proxyPort,
     TSHPath |-> tshPath]

\* fmt.Fprintln(&sb)
LeadingBlankLine == "\n"

\* The grave accent of the header.  A TLA+ string literal cannot hold that
\* character, so an apostrophe stands for it; no other text here holds one.
GraveAccent == "'"

\* fmt.Fprintf(&sb, "#\n# Begin generated Teleport configuration for %s from ...\n#\n", ...)
Header(webProxyAddr) ==
    "#\n# Begin generated Teleport configuration for " \o webProxyAddr
        \o " from " \o GraveAccent \o "tsh config" \o GraveAccent \o "\n#\n"

\* fmt.Fprintf(&sb, "\n# End generated Teleport configuration\n")
Footer == "\n# End generated Teleport configuration\n"

\* The errors of the collaborators.
ClientError == [kind |-> "ClientError"]
ConnectionError == [kind |-> "ConnectionError"]

\* trace.NewAggregate(rootErr, leafErr): nil when both are nil.
NewAggregate(rootErr, leafErr) ==
    IF ~rootErr /\ ~leafErr THEN Nil
    ELSE [kind |-> "Aggregate", root |-> rootErr, leaf |-> leafErr]

LeafNames == {"leaf1", "leaf2"}

\* The lists cluster discovery may return: up to MaxLeaves leaf names.
LeafLists == UNION {[1..n -> LeafNames] : n \in 0..MaxLeaves}

InitConfig ==
    /\ cmd = "config"
    /\ pc = "make_client"
    /\ cf \in [executablePath : {"/usr/bin/tsh"}]
    /\ tc \in [SSHProxyAddr : {"proxy.example.com:3023", "no-port-here", "[::1]:3023"},
               WebProxyAddr : {"proxy.example.com:443"},
               KeysDir : {"", "/t"},
               Username : {"alice"},
               RootClusterName : {"root", "main"},
               LeafClusters : LeafLists,
               makeClientErr : BOOLEAN,
               connectErr : BOOLEAN,
               rootErr : BOOLEAN,
               leafErr : BOOLEAN,
               \* which call of writeSSHConfig fails, 0 for none
               execFailsAt : 0..(MaxLeaves + 1)]
    /\ locals = <<>>
    /\ sb = ""
    /\ rendered = <<>>
    /\ stdout = <<>>
    /\ children = <<>>
    /\ ret = NotReturned

\* tc, err := makeClient(cf, true)
OnConfig_MakeClient ==
    /\ cmd = "config"
    /\ pc = "make_client"
    /\ IF tc.makeClientErr
       THEN ret' = ClientError /\ pc' = "done"
       ELSE ret' = ret /\ pc' = "split_proxy_addr"
    /\ UNCHANGED <<cmd, cf, tc, locals, sb, rendered, stdout, children>>

\* proxyHost, proxyPort, err := net.SplitHostPort(tc.Config.SSHProxyAddr)
OnConfig_SplitProxyAddr ==
    /\ cmd = "config"
    /\ pc = "split_proxy_addr"
    /\ LET r == SplitHostPort(tc.SSHProxyAddr)
       IN  IF r.err # Nil
           THEN /\ ret' = r.err
                /\ pc' = "done"
                /\ UNCHANGED locals
           ELSE /\ locals' = [proxyHost |-> r.host, proxyPort |-> r.port]
                /\ pc' = "connect"
                /\ UNCHANGED ret
    /\ UNCHANGED <<cmd, cf, tc, sb, rendered, stdout, children>>

\* proxyClient, err := tc.ConnectToProxy(cf.Context); defer proxyClient.Close()
OnConfig_ConnectToProxy ==
    /\ cmd = "config"
    /\ pc = "connect"
    /\ IF tc.connectErr
       THEN /\ ret' = ConnectionError
            /\ pc' = "done"
            /\ UNCHANGED locals
       ELSE /\ locals' = [proxyHost |-> locals.proxyHost, proxyPort |-> locals.proxyPort,
                          proxyClient |-> "open"]
            /\ pc' = "discover"
            /\ UNCHANGED ret
    /\ UNCHANGED <<cmd, cf, tc, sb, rendered, stdout, children>>

\* rootClusterName, rootErr := proxyClient.RootClusterName()
\* leafClusters, leafErr := proxyClient.GetLeafClusters(cf.Context)
\* if err := trace.NewAggregate(rootErr, leafErr); err != nil { return ... }
OnConfig_Discover ==
    /\ cmd = "config"
    /\ pc = "discover"
    /\ LET err == NewAggregate(tc.rootErr, tc.leafErr)
       IN  IF err # Nil
           THEN /\ ret' = err
                /\ pc' = "done"
                /\ locals' = [locals EXCEPT !.proxyClient = "closed"]
           ELSE /\ locals' = [proxyHost |-> locals.proxyHost,
                              proxyPort |-> locals.proxyPort,
                              proxyClient |-> locals.proxyClient,
                              rootClusterName |-> tc.RootClusterName,
                              leafClusters |-> tc.LeafClusters]
                /\ pc' = "begin"
                /\ UNCHANGED ret
    /\ UNCHANGED <<cmd, cf, tc, sb, rendered, stdout, children>>

\* A faulty variant: the header goes straight to standard output (fmt.Printf).
OnConfig_BeginPrintsHeader ==
    /\ cmd = "config"
    /\ pc = "begin"
    /\ LET keysDir == FullProfilePath(tc.KeysDir)
       IN  locals' = [proxyHost |-> locals.proxyHost,
                      proxyPort |-> locals.proxyPort,
                      proxyClient |-> locals.proxyClient,
                      rootClusterName |-> locals.rootClusterName,
                      leafClusters |-> locals.leafClusters,
                      keysDir |-> keysDir,
                      knownHostsPath |-> KnownHostsPath(keysDir),
                      identityFilePath |-> UserKeyPath(keysDir, locals.proxyHost, tc.Username),
                      i |-> 1]
    /\ sb' = sb \o LeadingBlankLine
    /\ stdout' = Append(stdout, Header(tc.WebProxyAddr))
    /\ pc' = "root_block"
    /\ UNCHANGED <<cmd, cf, tc, rendered, children, ret>>

\* The paths, the fresh builder, the blank line and the header, config.go:113-122.
OnConfig_Begin ==
    /\ cmd = "config"
    /\ pc = "begin"
    /\ LET keysDir == FullProfilePath(tc.KeysDir)
       IN  locals' = [proxyHost |-> locals.proxyHost,
                      proxyPort |-> locals.proxyPort,
                      proxyClient |-> locals.proxyClient,
                      rootClusterName |-> locals.rootClusterName,
                      leafClusters |-> locals.leafClusters,
                      keysDir |-> keysDir,
                      knownHostsPath |-> KnownHostsPath(keysDir),
                      identityFilePath |-> UserKeyPath(keysDir, locals.proxyHost, tc.Username),
                      i |-> 1]
    /\ sb' = sb \o LeadingBlankLine \o Header(tc.WebProxyAddr)
    /\ pc' = "root_block"
    /\ UNCHANGED <<cmd, cf, tc, rendered, stdout, children, ret>>

\* err = writeSSHConfig(&sb, hostConfigParameters{ClusterName: rootClusterName, ...})
OnConfig_RootBlock ==
    /\ cmd = "config"
    /\ pc = "root_block"
    /\ LET params == HostConfigParameters(
                        locals.rootClusterName, locals.knownHostsPath,
                        locals.identityFilePath,
                        RootCertificateFilePath(locals.keysDir, locals.proxyHost,
                                                tc.Username, locals.rootClusterName),
                        locals.proxyHost, locals.proxyPort, cf.executablePath)
       IN  /\ rendered' = Append(rendered, params)
           /\ \E r \in WriteSSHConfig(sb, params, tc.execFailsAt = Len(rendered) + 1) :
                 /\ sb' = r.sb
                 /\ IF r.err # Nil
                    THEN /\ ret' = r.err
                         /\ pc' = "done"
                         /\ locals' = [locals EXCEPT !.proxyClient = "closed"]
                    ELSE /\ pc' = "leaf_loop"
                         /\ UNCHANGED <<ret, locals>>
    /\ UNCHANGED <<cmd, cf, tc, stdout, children>>

\* One turn of `for _, leafCluster := range leafClusters`.
OnConfig_LeafBlock ==
    /\ cmd = "config"
    /\ pc = "leaf_loop"
    /\ locals.i <= Len(locals.leafClusters)
    /\ LET params == HostConfigParameters(
                        locals.leafClusters[locals.i], locals.knownHostsPath,
                        locals.identityFilePath,
                        LeafCertificateFilePath(locals.keysDir, locals.proxyHost,
                                                tc.Username, locals.rootClusterName,
                                                locals.leafClusters[locals.i]),
                        locals.proxyHost, locals.proxyPort, cf.executablePath)
       IN  /\ rendered' = Append(rendered, params)
           /\ \E r \in WriteSSHConfig(sb, params, tc.execFailsAt = Len(rendered) + 1) :
                 /\ sb' = r.sb
                 /\ IF r.err # Nil
                    THEN /\ ret' = r.err
                         /\ pc' = "done"
                         /\ locals' = [locals EXCEPT !.proxyClient = "closed"]
                    ELSE /\ pc' = "leaf_loop"
                         /\ locals' = [locals EXCEPT !.i = locals.i + 1]
                         /\ UNCHANGED ret
    /\ UNCHANGED <<cmd, cf, tc, stdout, children>>

\* The footer, fmt.Print(sb.String()) and return nil, config.go:152-154.
OnConfig_Finish ==
    /\ cmd = "config"
    /\ pc = "leaf_loop"
    /\ locals.i > Len(locals.leafClusters)
    /\ sb' = sb \o Footer
    /\ stdout' = Append(stdout, sb')
    /\ ret' = Nil
    /\ pc' = "done"
    /\ locals' = [locals EXCEPT !.proxyClient = "closed"]
    /\ UNCHANGED <<cmd, cf, tc, rendered, children>>

NextConfig ==
    \/ OnConfig_MakeClient
    \/ OnConfig_SplitProxyAddr
    \/ OnConfig_ConnectToProxy
    \/ OnConfig_Discover
    \/ OnConfig_Begin
    \/ OnConfig_RootBlock
    \/ OnConfig_LeafBlock
    \/ OnConfig_Finish

SpecConfig == InitConfig /\ [][NextConfig]_vars

-----------------------------------------------------------------------------
(* The whole program: one of the commands runs. *)

Init == InitSplit \/ InitProxy \/ InitRender \/ InitConfig

Next == NextSplit \/ NextProxy \/ NextRender \/ NextConfig

Spec == Init /\ [][Next]_vars

-----------------------------------------------------------------------------
(* The claims about net.SplitHostPort, checked under SpecSplit. *)

\* The colons of an address, by position (1-based), and the text around the last.
ColonsOf(a) == {i \in 1..Len(a) : SubSeq(a, i, i) = ":"}
LastColonOf(a) == CHOOSE i \in ColonsOf(a) : \A j \in ColonsOf(a) : j <= i
BeforeLastColon(a) == SubSeq(a, 1, LastColonOf(a) - 1)
AfterLastColon(a) == SubSeq(a, LastColonOf(a) + 1, Len(a))
HasBracket(a) == \E i \in 1..Len(a) : SubSeq(a, i, i) \in {"[", "]"}
Unbracketed(h) ==
    IF Len(h) >= 2 /\ SubSeq(h, 1, 1) = "[" /\ SubSeq(h, Len(h), Len(h)) = "]"
    THEN SubSeq(h, 2, Len(h) - 1)
    ELSE h

(* C6 (as amended): net.SplitHostPort splits at the last colon.  An address *)
(* with no colon fails with an address-format error naming it; an address   *)
(* with exactly one colon and no square bracket splits into the text before *)
(* the colon (host) and the text after it (port); and whenever the split    *)
(* succeeds, the port is the text after the last colon and the host is the  *)
(* text before it, less one enclosing pair of square brackets.              *)
C6_SplitAtLastColon ==
    (cmd = "split" /\ pc = "done") =>
        LET a == cf.Proxy
        IN  /\ ColonsOf(a) = {} =>
                /\ locals.err.kind = "AddrError"
                /\ locals.err.addr = a
            /\ (Cardinality(ColonsOf(a)) = 1 /\ ~HasBracket(a)) =>
                /\ locals.err = Nil
                /\ locals.host = BeforeLastColon(a)
                /\ locals.port = AfterLastColon(a)
            /\ locals.err = Nil =>
                /\ ColonsOf(a) # {}
                /\ locals.port = AfterLastColon(a)
                /\ locals.host = Unbracketed(BeforeLastColon(a))

\* C6 witness: the example proxy address has been split at its colon.
C6_Witness ==
    /\ cmd = "split" /\ pc = "done"
    /\ cf.Proxy = "proxy.example.com:443"
    /\ locals.err = Nil
    /\ locals.host = "proxy.example.com"
    /\ locals.port = "443"

\* C6 as stated: every address with at least one colon splits at its last
\* colon into host and port, and an address with none fails.
C6_Original ==
    (cmd = "split" /\ pc = "done") =>
        LET a == cf.Proxy
        IN  /\ ColonsOf(a) = {} => locals.err.kind = "AddrError"
            /\ ColonsOf(a) # {} =>
                /\ locals.err = Nil
                /\ locals.host = BeforeLastColon(a)
                /\ locals.port = AfterLastColon(a)

-----------------------------------------------------------------------------
(* The claims about onConfigProxy, checked under SpecProxy. *)

\* Both addresses of the invocation parse.
BothParse ==
    /\ SplitHostPort(cf.Proxy).err = Nil
    /\ SplitHostPort(cf.ConfigProxyTarget).err = Nil

\* The argument vector the command is to build: five elements.
ExpectedArgs ==
    LET P == SplitHostPort(cf.Proxy)
        T == SplitHostPort(cf.ConfigProxyTarget)
    IN  [i \in 1..5 |->
            CASE i = 1 -> "-p"
              [] i = 2 -> P.port
              [] i = 3 -> P.host
              [] i = 4 -> "-s"
              [] i = 5 -> "proxy:" \o StripTargetHost(T.host, P.host, cf.SiteName)
                          \o ":" \o T.port \o "@" \o cf.SiteName]

\* The invocation of the specification's first example.
IsExample1 ==
    /\ cf.Proxy = "proxy.example.com:443"
    /\ cf.ConfigProxyTarget = "node1.proxy.example.com:3022"
    /\ cf.SiteName = "main"

\* C1: when both addresses parse, onConfigProxy launches the SSH client with
\* exactly five arguments: "-p", the proxy port, the proxy host, "-s" and
\* "proxy:<strippedTargetHost>:<targetPort>@<siteName>"; for the example
\* proxy.example.com:443 / node1.proxy.example.com:3022 / main the vector is
\* ["-p","443","proxy.example.com","-s","proxy:node1:3022@main"].
C1_ArgumentVector ==
    cmd = "config-proxy" =>
        /\ \A i \in 1..Len(children) :
              /\ Len(children[i].args) = 5
              /\ children[i].args = ExpectedArgs
        /\ (pc = "done" /\ BothParse) => Len(children) >= 1
        /\ (pc = "done" /\ IsExample1) =>
              children[1].args = <<"-p", "443", "proxy.example.com", "-s",
                                   "proxy:node1:3022@main">>

\* C1 witness: the example invocation has launched its child with that vector.
C1_Witness ==
    /\ cmd = "config-proxy" /\ pc = "done" /\ IsExample1
    /\ Len(children) = 1
    /\ children[1].args = <<"-p", "443", "proxy.example.com", "-s", "proxy:node1:3022@main">>

\* h without the trailing suf when h = x \o suf for some x, else h.
StripOnce(h, suf) ==
    IF \E n \in 0..Len(h) : SubSeq(h, 1, n) \o suf = h
    THEN SubSeq(h, 1, Len(h) - Len(suf))
    ELSE h

\* h ends with suf.
EndsWith(h, suf) == \E n \in 0..Len(h) : SubSeq(h, 1, n) \o suf = h

\* C2: the target host is normalized in two ordered steps, each applied at
\* most once: a trailing ".<proxyHost>" is removed if present, then a trailing
\* ".<siteName>" is removed from the result if present; a host ending with
\* neither is unchanged, and "node1.main" with site "main" and proxy host
\* "proxy.example.com" becomes "node1".
C2_TwoStepStrip ==
    (cmd = "config-proxy" /\ pc \in {"run", "done"} /\ BothParse) =>
        LET P == SplitHostPort(cf.Proxy)
            T == SplitHostPort(cf.ConfigProxyTarget)
            afterProxy == StripOnce(T.host, "." \o P.host)
            afterSite == StripOnce(afterProxy, "." \o cf.SiteName)
        IN  /\ locals.targetHost = afterSite
            /\ (~EndsWith(T.host, "." \o P.host) /\ ~EndsWith(T.host, "." \o cf.SiteName))
                  => locals.targetHost = T.host
            /\ (cf.ConfigProxyTarget = "node1.main:3022" /\ cf.SiteName = "main"
                /\ cf.Proxy = "proxy.example.com:443") => locals.targetHost = "node1"

\* C2 witness: "node1.main" has been normalized to "node1" by the site step.
C2_Witness ==
    /\ cmd = "config-proxy" /\ pc = "done"
    /\ cf.ConfigProxyTarget = "node1.main:3022"
    /\ cf.SiteName = "main"
    /\ cf.Proxy = "proxy.example.com:443"
    /\ locals.targetHost = "node1"

\* C3: a malformed proxy or target address makes onConfigProxy return an
\* address-format error with no child spawned; the proxy address is parsed
\* first (its error wins), then the target address, and a child exists only
\* once both have parsed.
C3_NoSpawnOnBadAddress ==
    cmd = "config-proxy" =>
        LET badProxy == SplitHostPort(cf.Proxy).err # Nil
            badTarget == SplitHostPort(cf.ConfigProxyTarget).err # Nil
        IN  /\ (badProxy \/ badTarget) => children = <<>>
            /\ children # <<>> => (~badProxy /\ ~badTarget)
            /\ pc \in {"split_target", "build_args", "run"} => ~badProxy
            /\ pc \in {"build_args", "run"} => ~badTarget
            /\ (pc = "done" /\ badProxy) =>
                  (ret.kind = "AddrError" /\ ret.addr = cf.Proxy)
            /\ (pc = "done" /\ ~badProxy /\ badTarget) =>
                  (ret.kind = "AddrError" /\ ret.addr = cf.ConfigProxyTarget)
            /\ (pc = "done" /\ "no-port-here" \in {cf.Proxy, cf.ConfigProxyTarget}) =>
                  (ret.kind = "AddrError" /\ children = <<>>)

\* C3 witness: the malformed target "no-port-here" was rejected after a proxy
\* address that parsed, and nothing was spawned.
C3_Witness ==
    /\ cmd = "config-proxy" /\ pc = "done"
    /\ SplitHostPort(cf.Proxy).err = Nil
    /\ cf.ConfigProxyTarget = "no-port-here"
    /\ ret.kind = "AddrError"
    /\ children = <<>>

\* C8: once both addresses have parsed, the SSH client is launched exactly
\* once and its result is what is returned: nil for exit status zero, the
\* start failure or the non-zero exit error otherwise; there is never a
\* second child.
C8_SingleRunPassthrough ==
    cmd = "config-proxy" =>
        /\ Len(children) <= 1
        /\ (pc = "done" /\ BothParse) =>
              /\ Len(children) = 1
              /\ (ret = Nil) <=> (children[1].outcome = "exit0")
              /\ children[1].outcome = "exit1" => ret = [kind |-> "ExitError", code |-> 1]
              /\ children[1].outcome = "exit255" => ret = [kind |-> "ExitError", code |-> 255]
              /\ children[1].outcome = "start_failed" => ret = [kind |-> "StartError"]

\* C8 witness: the single child exited non-zero and its error was returned.
C8_Witness ==
    /\ cmd = "config-proxy" /\ pc = "done"
    /\ Len(children) = 1
    /\ children[1].outcome = "exit255"
    /\ ret = [kind |-> "ExitError", code |-> 255]

\* C9: for every node name n, cluster C and proxy host P, when the
\* ProxyCommand of cluster C is expanded on host "n.C" (which the stanza
\* "*.C !P" matches), the host in the "proxy:<host>:<port>@C" argument is n.
C9_ClusterSuffixRemoved ==
    (cmd = "config-proxy" /\ children # <<>>) =>
        \A n \in DotNames(MaxLabels + 1) :
            LET P == SplitHostPort(cf.Proxy)
                inv == ProxyCommandInvocation(cf.SiteName, P.host, P.port,
                                              n \o "." \o cf.SiteName, "3022")
            IN  (cf = inv /\ n \o "." \o cf.SiteName # P.host) =>
                    children[1].args[5] = "proxy:" \o n \o ":3022@" \o cf.SiteName

-----------------------------------------------------------------------------
(* The claims about writeSSHConfig, checked under SpecRender. *)

\* The lines of a text, in order (a text ending in a line break has an empty
\* last line).
LinesOf(s) ==
    LET breaks == {i \in 1..Len(s) : SubSeq(s, i, i) = "\n"}
        starts == {1} \cup {i + 1 : i \in breaks}
        nth(k) == CHOOSE x \in starts : Cardinality({y \in starts : y < x}) = k - 1
        stop(x) == IF \E b \in breaks : b >= x
                   THEN CHOOSE b \in breaks : b >= x /\ \A c \in breaks : c >= x => b <= c
                   ELSE Len(s) + 1
    IN  [k \in 1..Cardinality(starts) |-> SubSeq(s, nth(k), stop(nth(k)) - 1)]

\* A line without its leading blanks, as an SSH client reads it.
TrimLeft(line) ==
    LET solid == {i \in 1..Len(line) : SubSeq(line, i, i) \notin {" ", "\t"}}
    IN  IF solid = {} THEN ""
        ELSE SubSeq(line, CHOOSE i \in solid : \A j \in solid : i <= j, Len(line))

StartsWith(s, prefix) == Len(s) >= Len(prefix) /\ SubSeq(s, 1, Len(prefix)) = prefix

IsHostLine(line) == StartsWith(TrimLeft(line), "Host ")

IsDirective(line) == TrimLeft(line) # "" /\ ~StartsWith(TrimLeft(line), "#")

\* The Host stanzas of a text, in order: the pattern of each Host line and
\* the directives that follow it up to the next Host line.
Stanzas(text) ==
    LET L == LinesOf(text)
        hosts == {i \in 1..Len(L) : IsHostLine(L[i])}
        nth(k) == CHOOSE x \in hosts : Cardinality({y \in hosts : y < x}) = k - 1
        last(k) == IF k = Cardinality(hosts) THEN Len(L) ELSE nth(k + 1) - 1
        trimmed(lines) == [i \in 1..Len(lines) |-> TrimLeft(lines[i])]
    IN  [k \in 1..Cardinality(hosts) |->
            [pattern |-> SubSeq(TrimLeft(L[nth(k)]), 6, Len(TrimLeft(L[nth(k)]))),
             directives |-> trimmed(SelectSeq(SubSeq(L, nth(k) + 1, last(k)), IsDirective))]]

Contains(s, c) == \E i \in 1..Len(s) : SubSeq(s, i, i) = c

NoLineBreak(params) == \A f \in DOMAIN params : ~Contains(params[f], "\n")

\* The two stanzas a block is to hold for params.
TwoStanzasFor(block, params) ==
    LET st == Stanzas(block)
    IN  /\ Len(st) = 2
        /\ st[1].pattern = "*." \o params.ClusterName \o " " \o params.ProxyHost
        /\ st[1].directives =
              <<"UserKnownHostsFile \"" \o params.KnownHostsPath \o "\"",
                "IdentityFile \"" \o params.IdentityFilePath \o "\"",
                "CertificateFile \"" \o params.CertificateFilePath \o "\"">>
        /\ st[2].pattern = "*." \o params.ClusterName \o " !" \o params.ProxyHost
        /\ st[2].directives =
              <<"Port 3022",
                "ProxyCommand " \o params.TSHPath \o " config-proxy --proxy="
                    \o params.ProxyHost \o ":" \o params.ProxyPort
                    \o " %h:%p \"" \o params.ClusterName \o "\"">>

\* C4 (as amended): for any hostConfigParameters value whose fields hold no
\* line break, the block appended by writeSSHConfig contains exactly two Host
\* stanzas, in this order: "*.<ClusterName> <ProxyHost>" carrying
\* UserKnownHostsFile, IdentityFile and CertificateFile, then
\* "*.<ClusterName> !<ProxyHost>" carrying "Port 3022" and the ProxyCommand
\* "<TSHPath> config-proxy --proxy=<ProxyHost>:<ProxyPort> %h:%p \"<ClusterName>\""
\* with %h and %p literal.
C4_TwoHostStanzas ==
    (cmd = "render" /\ pc = "done" /\ ret = Nil /\ NoLineBreak(cf)) =>
        TwoStanzasFor(sb, cf)

\* C4 witness: a block for cluster "main" has been rendered with its tunneled
\* stanza "*.main !proxy.example.com".
C4_Witness ==
    /\ cmd = "render" /\ pc = "done" /\ ret = Nil
    /\ cf.ClusterName = "main" /\ cf.ProxyHost = "proxy.example.com"
    /\ Len(Stanzas(sb)) = 2
    /\ Stanzas(sb)[2].pattern = "*.main !proxy.example.com"

\* C4 as stated: the same for any hostConfigParameters value.
C4_Original ==
    (cmd = "render" /\ pc = "done" /\ ret = Nil) => TwoStanzasFor(sb, cf)

\* A directive value enclosed in one pair of double quotes, with no double
\* quote inside that a backslash does not escape.
ProperlyQuoted(v) ==
    /\ Len(v) >= 2
    /\ SubSeq(v, 1, 1) = "\""
    /\ SubSeq(v, Len(v), Len(v)) = "\""
    /\ \A i \in 2..(Len(v) - 1) :
          SubSeq(v, i, i) = "\"" => (i > 2 /\ SubSeq(v, i - 1, i - 1) = "\\")

\* The values the lines of a text give to a directive keyword.
ValuesOf(text, keyword) ==
    LET L == LinesOf(text)
    IN  {SubSeq(TrimLeft(L[i]), Len(keyword) + 2, Len(TrimLeft(L[i]))) :
            i \in {j \in 1..Len(L) : StartsWith(TrimLeft(L[j]), keyword \o " ")}}

\* C7: for any hostConfigParameters value, also one whose paths already hold
\* double quotes, each of UserKnownHostsFile, IdentityFile and CertificateFile
\* has its value enclosed in exactly one pair of double quotes, with no
\* unescaped double quote inside.
C7_PathsProperlyQuoted ==
    (cmd = "render" /\ pc = "done" /\ ret = Nil) =>
        \A keyword \in {"UserKnownHostsFile", "IdentityFile", "CertificateFile"} :
            /\ ValuesOf(sb, keyword) # {}
            /\ \A v \in ValuesOf(sb, keyword) : ProperlyQuoted(v)

-----------------------------------------------------------------------------
(* The claims about onConfig, checked under SpecConfig. *)

\* The blocks of a sequence of parameters, one after the other.
RECURSIVE BlocksText(_, _)
BlocksText(paramsSeq, n) ==
    IF n = 0 THEN ""
    ELSE BlocksText(paramsSeq, n - 1) \o RenderedBlock(paramsSeq[n])

\* C5: the text onConfig emits for root cluster R and leaves L1..Ln is a
\* leading blank line, the header naming the proxy address, the block of R,
\* the blocks of L1..Ln in the order discovery supplied them, and the footer;
\* each leaf block is rendered from the root block's parameters with only
\* ClusterName changed, so known-hosts, identity and (root-derived)
\* certificate paths are the same in all blocks.
C5_OutputOrder ==
    (cmd = "config" /\ pc = "done" /\ ret = Nil) =>
        LET leaves == tc.LeafClusters
            keysDir == FullProfilePath(tc.KeysDir)
            proxyHost == SplitHostPort(tc.SSHProxyAddr).host
        IN  /\ Len(rendered) = 1 + Len(leaves)
            /\ rendered[1].ClusterName = tc.RootClusterName
            /\ rendered[1].CertificateFilePath =
                  SSHCertPath(keysDir, proxyHost, tc.Username, tc.RootClusterName)
            /\ \A i \in 1..Len(leaves) :
                  rendered[i + 1] = [rendered[1] EXCEPT !.ClusterName = leaves[i]]
            /\ stdout = <<"\n" \o Header(tc.WebProxyAddr)
                          \o BlocksText(rendered, Len(rendered)) \o Footer>>

\* C5 witness: a root and two different leaves have been emitted, the second
\* leaf's block last.
C5_Witness ==
    /\ cmd = "config" /\ pc = "done" /\ ret = Nil
    /\ tc.LeafClusters = <<"leaf2", "leaf1">>
    /\ Len(stdout) = 1
    /\ Len(rendered) = 3
    /\ rendered[2].ClusterName = "leaf2"
    /\ rendered[3].ClusterName = "leaf1"

\* One of the stages of onConfig fails in this run.
SomeStageFails ==
    \/ tc.makeClientErr
    \/ SplitHostPort(tc.SSHProxyAddr).err # Nil
    \/ tc.connectErr
    \/ tc.rootErr
    \/ tc.leafErr
    \/ tc.execFailsAt \in 1..(1 + Len(tc.LeafClusters))

\* C10: onConfig writes to standard output in a single step, only after the
\* header, the root block, every leaf block and the footer have been built;
\* if client creation, proxy-address parsing, the proxy connection, cluster
\* discovery or any block rendering fails, it returns the error and nothing
\* has been written.
C10_AllOrNothing ==
    cmd = "config" =>
        /\ Len(stdout) <= 1
        /\ stdout # <<>> =>
              /\ pc = "done" /\ ret = Nil /\ ~SomeStageFails
              /\ Len(rendered) = 1 + Len(tc.LeafClusters)
              /\ stdout[1] = "\n" \o Header(tc.WebProxyAddr)
                             \o BlocksText(rendered, Len(rendered)) \o Footer
        /\ (pc = "done" /\ SomeStageFails) =>
              (ret \notin {Nil, NotReturned} /\ stdout = <<>>)
        /\ (pc = "done" /\ ~SomeStageFails) => (ret = Nil /\ Len(stdout) = 1)

\* C10 witness: the second block failed to render after text had been
\* built, the error was returned and nothing was written.
C10_Witness ==
    /\ cmd = "config" /\ pc = "done"
    /\ tc.execFailsAt = 2
    /\ Len(rendered) = 2
    /\ ret = TemplateError
    /\ Len(sb) > Len(Header(tc.WebProxyAddr))
    /\ stdout = <<>>

=============================================================================
